---- MODULE Spec2Model ----
(***************************************************************************)
(* The solve pipeline of app.py: solve_coding_problem (prompt, retry loop, *)
(* response cleaning and validation), execute_code (precondition, exec     *)
(* with captured output, fault boundary) and the batch run of the          *)
(* manual_solve / upload_pdf handlers.                                     *)
(*                                                                         *)
(* A string is a sequence of tokens.  The tokens that the code inspects    *)
(* are kept apart: the fence marker, the word python, the word input, the  *)
(* opening parenthesis, white space and the word Error.                    *)
(***************************************************************************)
EXTENDS Integers, Sequences, FiniteSets, TLC

\* ------------------------------------------------------------------ bounds
MaxQuestions == 2
MaxContentLen == 3
MaxOutLen == 2
MaxRetryAfter == 2

\* ------------------------------------------------------- program constants
RangeAttempts == 5
RandLow == 1
RandHigh == 7
DefaultRetryAfter == 1
StatusOK == 200
StatusTooMany == 429
StatusServerError == 500

\* ------------------------------------------------------------------ tokens
\* the three backquotes that open and close a code block
Fence == "fence"
Python == "python"
Input == "input"
Paren == "("
Space == " "
Error == "Error"
Code == "x"

ContentTokens == {Fence, Python, Input, Paren, Space, Error, Code}
OutTokens == {Space, Code}

SeqsUpTo(S, n) == UNION {[1..k -> S] : k \in 0..n}

\* ------------------------------------------------------------ str methods
RECURSIVE lstrip(_)
lstrip(s) ==
  IF s # <<>> /\ Head(s) = Space THEN lstrip(Tail(s)) ELSE s

RECURSIVE rstrip(_)
rstrip(s) ==
  IF s # <<>> /\ s[Len(s)] = Space THEN rstrip(SubSeq(s, 1, Len(s) - 1)) ELSE s

strip(s) == lstrip(rstrip(s))

\* s.replace(old, ""): one scan from the left, matches do not overlap
RECURSIVE replace(_, _)
replace(s, old) ==
  IF Len(s) < Len(old) THEN s
  ELSE IF SubSeq(s, 1, Len(old)) = old
       THEN replace(SubSeq(s, Len(old) + 1, Len(s)), old)
       ELSE <<Head(s)>> \o replace(Tail(s), old)

\* old in s
contains(s, old) ==
  \E i \in 1..(Len(s) - Len(old) + 1) : SubSeq(s, i, i + Len(old) - 1) = old

startswith(s, old) ==
  Len(s) >= Len(old) /\ SubSeq(s, 1, Len(old)) = old

lower(t) ==
  CASE t = "Input" -> "input"
    [] t = "USER" -> "user"
    [] OTHER -> t

\* ------------------------------------------------------------- questions
QuestionSet == {<<"add", "two">>, <<"read", "Input">>, <<"ask", "USER">>}

\* the questions a batch is made of
BatchQuestionSet == {<<"add", "two">>, <<"read", "Input">>}

\* "input" in question.lower() or "user" in question.lower()
ExpectsInput(question) ==
  \/ \E i \in 1..Len(question) : lower(question[i]) = "input"
  \/ \E i \in 1..Len(question) : lower(question[i]) = "user"

AugmentedQuestion(question, random_number) ==
  question \o <<" Assume the user input is ", ToString(random_number),
                ". The code should NOT prompt for input.">>

BuildPrompt(question) ==
  <<"Write only the Python code to solve the following problem: ">>
    \o question \o <<". The code must NOT contain any input() function ...">>

NoPrompt == <<>>

\* ------------------------------------------------------- result strings
UnableToFetch ==
  <<Error, ": Unable to fetch solution from the API after multiple attempts.">>

ErrorSolving(e) == <<Error, " solving coding problem: ", e>>

InvalidCode(code) == <<"Invalid code returned: ">> \o code

NoOutput == <<Error, ": Code execution produced no output.">>

ErrorExecuting(e) == <<Error, " executing code: ", e>>

\* ------------------------------------------------------------ exceptions
\* classes that derive from Exception, and those that derive from
\* BaseException only
ExceptionClasses ==
  {"ConnectionError", "JSONDecodeError", "IndexError", "ValueError",
   "ZeroDivisionError"}
BaseOnlyClasses == {"SystemExit"}

\* a clause that catches the errors of the requests library only
ExceptRequestException(e) == e = "ConnectionError"

\* except Exception as e
ExceptException(e) == e \in ExceptionClasses

\* ------------------------------------------------ the generation service
\* a Retry-After header: absent, an integer, or an HTTP date
NoHeader == [k |-> "absent", n |-> 0]
IntHeader(v) == [k |-> "int", n |-> v]
DateHeader == [k |-> "date", n |-> 0]

AllHeaders == {NoHeader, DateHeader} \cup {IntHeader(v) : v \in -1..MaxRetryAfter}
SomeHeaders == {NoHeader, DateHeader}

AllContents == SeqsUpTo(ContentTokens, MaxContentLen)
SomeContents ==
  { <<>>,
    <<Fence, Python, Code, Fence>>,
    <<Input, Paren>>,
    <<Error, Code>> }

NoResponse == [status |-> 0, body |-> <<>>, header |-> NoHeader, raised |-> ""]
Response(st, b, h, e) == [status |-> st, body |-> b, header |-> h, raised |-> e]

\* what a generated program may do: write a text, then end or raise
OutTexts == SeqsUpTo(OutTokens, MaxOutLen)
ProgramRaises == {"ZeroDivisionError"} \cup BaseOnlyClasses

\* --------------------------------------------------------------- state
VARIABLES
  service,        \* the contents and Retry-After headers the service draws from
  questions,      \* the handler's list of questions
  handler,        \* position of the handler
  solutions,      \* solutions = [solve_coding_problem(q) for q in questions]
  final_outputs,  \* final_outputs = [execute_code(sol) for sol in solutions]
  items,          \* what generate_word_doc pairs up
  call,           \* position of the running solve_coding_problem call
  prompt,         \* the call's prompt
  attempt,        \* requests the call has sent
  retry_after,    \* the call's retry_after
  result,         \* value the call returns
  last,           \* last response the call received
  owed,           \* sum of the delays the 429 responses of the call asked for
  slept,          \* time the call has slept
  outcomes,       \* per solution: "Success" or "Failure"
  executed,       \* per final output: "no", or how the exec of the code "ended" or "raised"
  buffers,        \* output buffers created so far
  output,         \* content of the newest output buffer
  calls,          \* solve_coding_problem calls started
  codes,          \* the codes execute_code was called with
  limited,        \* 429 responses the call has received
  sleeps,         \* times the call has slept
  sent            \* the prompts the requests of the call carried

vars == <<service, questions, handler, solutions, final_outputs, items, call,
          prompt, attempt, retry_after, result, last, owed, slept, outcomes,
          executed, buffers, output, calls, codes, limited, sleeps, sent>>

batchVars == <<service, questions, handler, solutions, final_outputs, items,
               outcomes, executed, buffers, output, calls, codes>>
callVars == <<call, prompt, attempt, retry_after, result, last, owed, slept,
              limited, sleeps, sent>>

ServiceContents == IF service.contents = "all" THEN AllContents ELSE SomeContents
ServiceHeaders ==
  CASE service.headers = "all" -> AllHeaders
    [] service.headers = "some" -> SomeHeaders
    [] OTHER -> {}

\* ---------------------------------------------------------------- Init
\* Three request scenarios: one question against every content the service
\* can send, one question against every Retry-After header, and a batch of
\* questions against a few contents and headers.
Init ==
  /\ \/ /\ service = [contents |-> "all", headers |-> "none"]
        /\ questions = << <<"add", "two">> >>
     \/ /\ service = [contents |-> "some", headers |-> "all"]
        /\ questions \in [1..1 -> QuestionSet]
     \/ /\ service = [contents |-> "some", headers |-> "some"]
        /\ questions \in UNION {[1..n -> BatchQuestionSet] : n \in 1..MaxQuestions}
  /\ handler = "solutions"
  /\ solutions = <<>>
  /\ final_outputs = <<>>
  /\ items = <<>>
  /\ call = "idle"
  /\ prompt = NoPrompt
  /\ attempt = 0
  /\ retry_after = 0
  /\ result = <<>>
  /\ last = NoResponse
  /\ owed = 0
  /\ slept = 0
  /\ outcomes = <<>>
  /\ executed = <<>>
  /\ buffers = 0
  /\ output = <<>>
  /\ calls = 0
  /\ codes = <<>>
  /\ limited = 0
  /\ sleeps = 0
  /\ sent = {}

\* ------------------------------------------------ solve_coding_problem
\* lines 69 and 72: the content, stripped, the fences removed, stripped
CleanSolution(content) ==
  strip(replace(replace(strip(content), <<Fence, Python>>), <<Fence>>))

\* the check of line 74 without its "input(" part
AcceptedNonEmpty(solution) == solution # <<>>

\* line 74: solution and "input(" not in solution
Accepted(solution) ==
  solution # <<>> /\ ~contains(solution, <<Input, Paren>>)

\* a loop of one attempt more
OneMoreAttempt == attempt < RangeAttempts + 1

\* for attempt in range(5)
MoreAttempts == attempt < RangeAttempts

\* int(response.headers.get('Retry-After', 1)): whether it parses, and its value
ParsesAsInt(h) == h.k # "date"
RetryAfterDefault(h) == DefaultRetryAfter
RetryAfterOf(h) == IF h.k = "absent" THEN DefaultRetryAfter ELSE h.n

\* lines 87-89: an exception raised inside the try block of the call
SolveRaises(resp, e) ==
  /\ last' = resp
  /\ IF ExceptException(e)
       THEN /\ result' = ErrorSolving(e)
            /\ call' = "failed"
            /\ UNCHANGED handler
       ELSE /\ call' = "idle"
            /\ handler' = "escaped"
            /\ UNCHANGED result
  /\ UNCHANGED <<service, questions, solutions, final_outputs, items,
                 outcomes, executed, buffers, output, calls, codes>>
  /\ UNCHANGED <<prompt, retry_after, owed, slept, sleeps>>

\* a prompt whose number is chosen again for every request
RequestPromptRedrawn ==
  IF ExpectsInput(questions[calls])
    THEN BuildPrompt(AugmentedQuestion(questions[calls],
                                       RandLow + (attempt % RandHigh)))
    ELSE prompt

\* lines 62, 65: the prompt that a request carries
RequestPrompt == prompt

\* line 65: requests.post(BASE_URL, headers=headers, json=data)
Post ==
  /\ attempt' = attempt + 1
  /\ sent' = sent \cup {RequestPrompt}

\* lines 48-62: the next question's call starts and builds its prompt
StartCall ==
  /\ handler = "solutions"
  /\ call = "idle"
  /\ Len(solutions) < Len(questions)
  /\ LET question == questions[Len(solutions) + 1] IN
       IF ExpectsInput(question)
         THEN \E random_number \in RandLow..RandHigh :
                prompt' = BuildPrompt(AugmentedQuestion(question, random_number))
         ELSE prompt' = BuildPrompt(question)
  /\ call' = "attempting"
  /\ attempt' = 0
  /\ retry_after' = 0
  /\ result' = <<>>
  /\ last' = NoResponse
  /\ owed' = 0
  /\ slept' = 0
  /\ limited' = 0
  /\ sleeps' = 0
  /\ sent' = {}
  /\ calls' = calls + 1
  /\ UNCHANGED <<service, questions, handler, solutions, final_outputs, items,
                 outcomes, executed, buffers, output, codes>>

\* line 65 raises: the request could not be sent
PostRaises ==
  /\ call = "attempting"
  /\ MoreAttempts
  /\ Post
  /\ UNCHANGED limited
  /\ SolveRaises(Response(0, <<>>, NoHeader, "ConnectionError"), "ConnectionError")

\* lines 67-69 raise: status 200 whose body is not the expected JSON
MalformedBody ==
  /\ call = "attempting"
  /\ MoreAttempts
  /\ Post
  /\ UNCHANGED limited
  /\ \E e \in {"JSONDecodeError", "IndexError"} :
       SolveRaises(Response(StatusOK, <<>>, NoHeader, e), e)

\* status 200 handled without the return of line 75
StatusOKKeepsGoing ==
  /\ call = "attempting"
  /\ MoreAttempts
  /\ Post
  /\ \E content \in ServiceContents :
       LET solution == CleanSolution(content) IN
         /\ last' = Response(StatusOK, content, NoHeader, "")
         /\ call' = "attempting"
         /\ IF Accepted(solution)
              THEN result' = solution
              ELSE UNCHANGED result
  /\ UNCHANGED batchVars
  /\ UNCHANGED <<prompt, retry_after, owed, slept, limited, sleeps>>

\* status 200 handled without the retry of lines 76-77
StatusOKGivesUp ==
  /\ call = "attempting"
  /\ MoreAttempts
  /\ Post
  /\ \E content \in ServiceContents :
       LET solution == CleanSolution(content) IN
         /\ last' = Response(StatusOK, content, NoHeader, "")
         /\ IF Accepted(solution)
              THEN /\ result' = solution
                   /\ call' = "succeeded"
              ELSE /\ result' = UnableToFetch
                   /\ call' = "failed"
  /\ UNCHANGED batchVars
  /\ UNCHANGED <<prompt, retry_after, owed, slept, limited, sleeps>>

\* lines 67-77: status 200 with a content
StatusOKContent ==
  /\ call = "attempting"
  /\ MoreAttempts
  /\ Post
  /\ \E content \in ServiceContents :
       LET solution == CleanSolution(content) IN
         /\ last' = Response(StatusOK, content, NoHeader, "")
         /\ IF Accepted(solution)
              THEN /\ result' = solution
                   /\ call' = "succeeded"
              ELSE /\ call' = "attempting"
                   /\ UNCHANGED result
  /\ UNCHANGED batchVars
  /\ UNCHANGED <<prompt, retry_after, owed, slept, limited, sleeps>>

\* lines 78-80: status 429; retry_after is read from the header
RateLimited ==
  /\ call = "attempting"
  /\ MoreAttempts
  /\ Post
  /\ limited' = limited + 1
  /\ \E h \in ServiceHeaders :
       IF ParsesAsInt(h)
         THEN /\ last' = Response(StatusTooMany, <<>>, h, "")
              /\ retry_after' = RetryAfterOf(h)
              /\ owed' = owed + (IF h.k = "int" THEN h.n ELSE 1)
              /\ call' = "backoff"
              /\ UNCHANGED <<prompt, result, slept, sleeps>>
              /\ UNCHANGED batchVars
         ELSE SolveRaises(Response(StatusTooMany, <<>>, h, "ValueError"),
                          "ValueError")

\* a sleep that is left out when no attempt remains
SleepUnlessLast ==
  /\ call = "backoff"
  /\ IF MoreAttempts
       THEN /\ slept' = slept + retry_after
            /\ sleeps' = sleeps + 1
       ELSE UNCHANGED <<slept, sleeps>>
  /\ call' = "attempting"
  /\ UNCHANGED <<prompt, attempt, retry_after, result, last, owed, limited, sent>>
  /\ UNCHANGED batchVars

\* line 81: time.sleep(retry_after); a negative length raises ValueError
Sleep ==
  /\ call = "backoff"
  /\ IF retry_after >= 0
       THEN /\ slept' = slept + retry_after
            /\ sleeps' = sleeps + 1
            /\ call' = "attempting"
            /\ UNCHANGED <<prompt, attempt, retry_after, result, last, owed,
                           limited, sent>>
            /\ UNCHANGED batchVars
       ELSE /\ UNCHANGED <<attempt, limited, sent>>
            /\ SolveRaises([last EXCEPT !.raised = "ValueError"], "ValueError")

\* any other status handled without the break of line 84
OtherStatusContinues ==
  /\ call = "attempting"
  /\ MoreAttempts
  /\ last' = Response(StatusServerError, <<>>, NoHeader, "")
  /\ Post
  /\ UNCHANGED <<call, prompt, retry_after, result, owed, slept, limited, sleeps>>
  /\ UNCHANGED batchVars

\* lines 82-86: any other status breaks out of the loop
OtherStatus ==
  /\ call = "attempting"
  /\ MoreAttempts
  /\ last' = Response(StatusServerError, <<>>, NoHeader, "")
  /\ Post
  /\ result' = UnableToFetch
  /\ call' = "failed"
  /\ UNCHANGED <<prompt, retry_after, owed, slept, limited, sleeps>>
  /\ UNCHANGED batchVars

\* lines 64, 86: the loop ran out
Exhausted ==
  /\ call = "attempting"
  /\ ~MoreAttempts
  /\ result' = UnableToFetch
  /\ call' = "failed"
  /\ UNCHANGED <<prompt, attempt, retry_after, last, owed, slept, limited,
                 sleeps, sent>>
  /\ UNCHANGED batchVars

\* lines 191, 239: the call returns into the list of solutions
ReturnSolution ==
  /\ handler = "solutions"
  /\ call \in {"succeeded", "failed"}
  /\ solutions' = Append(solutions, result)
  /\ outcomes' = Append(outcomes, IF call = "succeeded" THEN "Success" ELSE "Failure")
  /\ handler' = IF Len(solutions) + 1 = Len(questions)
                  THEN "final_outputs" ELSE "solutions"
  /\ call' = "idle"
  /\ prompt' = NoPrompt
  /\ attempt' = 0
  /\ retry_after' = 0
  /\ result' = <<>>
  /\ last' = NoResponse
  /\ owed' = 0
  /\ slept' = 0
  /\ limited' = 0
  /\ sleeps' = 0
  /\ sent' = {}
  /\ UNCHANGED <<service, questions, final_outputs, items, executed, buffers,
                 output, calls, codes>>

\* -------------------------------------------------------- execute_code
\* the precondition without its startswith part
RejectedEmpty(code) == code = <<>>

\* a precondition that looks for the marker anywhere in the code
RejectedAnyError(code) == contains(code, <<Error>>) \/ code = <<>>

\* line 94: code.startswith("Error") or not code
Rejected(code) == startswith(code, <<Error>>) \/ code = <<>>

\* lines 105-106: result = output.getvalue().strip(), or the no-output text
CapturedResult(text) ==
  IF strip(text) # <<>> THEN strip(text) ELSE NoOutput

\* the newest solution instead of the next one in order
NextCodeNewest == solutions[Len(solutions)]

\* the code execute_code is called with next
NextCode == solutions[Len(final_outputs) + 1]

\* the list of final outputs grows by one; the handler moves on after the last
AppendOutput(out, ran) ==
  /\ final_outputs' = Append(final_outputs, out)
  /\ executed' = Append(executed, ran)
  /\ handler' = IF Len(final_outputs) + 1 = Len(solutions)
                  THEN "screenshots" ELSE "final_outputs"

\* lines 94-95: the precondition turns the code away
ExecuteRejects ==
  /\ handler = "final_outputs"
  /\ Rejected(NextCode)
  /\ AppendOutput(InvalidCode(NextCode), "no")
  /\ codes' = Append(codes, NextCode)
  /\ UNCHANGED <<service, questions, solutions, items, outcomes, buffers, output,
                 calls>>
  /\ UNCHANGED callVars

\* lines 99-106: the program runs to its end, having written text
ExecuteEnds ==
  /\ handler = "final_outputs"
  /\ ~Rejected(NextCode)
  /\ \E text \in OutTexts :
       /\ output' = text
       /\ AppendOutput(CapturedResult(text), "ended")
  /\ buffers' = buffers + 1
  /\ codes' = Append(codes, NextCode)
  /\ UNCHANGED <<service, questions, solutions, items, outcomes, calls>>
  /\ UNCHANGED callVars

\* lines 102-110 and 251-253: the program raises, having written text
ExecuteRaises ==
  /\ handler = "final_outputs"
  /\ ~Rejected(NextCode)
  /\ buffers' = buffers + 1
  /\ \E text \in OutTexts, e \in ProgramRaises :
       /\ output' = text
       /\ IF ExceptException(e)
            THEN AppendOutput(ErrorExecuting(e), "raised")
            ELSE /\ handler' = "escaped"
                 /\ UNCHANGED <<final_outputs, executed>>
  /\ codes' = Append(codes, NextCode)
  /\ UNCHANGED <<service, questions, solutions, items, outcomes, calls>>
  /\ UNCHANGED callVars

\* ------------------------------------------- screenshots and the report
\* lines 112-134: the image of an output, or b"" when drawing fails
create_screenshot(output_text, drawn) ==
  IF drawn
    THEN <<"PNG">> \o (IF strip(output_text) # <<>> THEN strip(output_text)
                       ELSE <<"No output.">>)
    ELSE <<>>

Min(a, b) == IF a < b THEN a ELSE b

\* lines 150, 193, 241: zip(questions, solutions, screenshots)
Zipped(drawn) ==
  [i \in 1..Min(Len(questions), Min(Len(solutions), Len(final_outputs))) |->
     [question |-> questions[i],
      solution |-> solutions[i],
      output |-> final_outputs[i],
      screenshot |-> create_screenshot(final_outputs[i], drawn)]]

\* lines 193-198, 241-249: the screenshots are drawn and the report is sent
SendReport ==
  /\ handler = "screenshots"
  /\ \E drawn \in BOOLEAN : items' = Zipped(drawn)
  /\ handler' = "sent"
  /\ UNCHANGED <<service, questions, solutions, final_outputs, outcomes,
                 executed, buffers, output, calls, codes>>
  /\ UNCHANGED callVars

Next ==
  \/ StartCall
  \/ PostRaises
  \/ MalformedBody
  \/ StatusOKContent
  \/ RateLimited
  \/ Sleep
  \/ OtherStatus
  \/ Exhausted
  \/ ReturnSolution
  \/ ExecuteRejects
  \/ ExecuteEnds
  \/ ExecuteRaises
  \/ SendReport

Spec == Init /\ [][Next]_vars

\* one thread of control: a request returns, a sleep ends, a program ends, so
\* the handler takes its next step whenever it has one
FairSpec == Spec /\ WF_vars(Next)

\* ================================================================ claims
Ended == handler \in {"sent", "escaped"}

\* what the text of a status-200 response is cleaned to
CleanedLast == CleanSolution(last.body)
Got200 == last.status = 200 /\ last.raised = ""
HasInputCall(text) == contains(text, <<Input, Paren>>)

\* C1: when the handler has ended, the report has one item per question, in
\* the order of the questions, the i-th item carrying the i-th question.
C1_OneItemPerQuestion ==
  Ended =>
    /\ Len(items) = Len(questions)
    /\ \A i \in 1..Len(questions) : items[i].question = questions[i]

\* C2: a text that is empty or contains "input(" is never returned as a
\* Success; the status-200 response that carried it leaves the call
\* attempting (or failed, once the attempts are used up).
C2_NoInputCallAccepted ==
  /\ call = "succeeded" => result # <<>> /\ ~HasInputCall(result)
  /\ \A i \in 1..Len(solutions) :
       outcomes[i] = "Success" => solutions[i] # <<>> /\ ~HasInputCall(solutions[i])
  /\ (Got200 /\ (CleanedLast = <<>> \/ HasInputCall(CleanedLast))) =>
       /\ call \in {"attempting", "failed"}
       /\ call = "failed" => attempt = 5 /\ result = UnableToFetch
       /\ call = "attempting" => result = <<>>

C2_Witness ==
  /\ call = "attempting"
  /\ Got200
  /\ HasInputCall(CleanedLast)
  /\ ~HasInputCall(last.body)
  /\ attempt >= 1

\* C3: a call sends at most 5 requests; when the fifth attempt also ends
\* without a valid result (a rejected content or a rate limit that was slept
\* out), the call returns the generic failure string.
Retriable ==
  last.raised = "" /\ (last.status = 429 \/ (last.status = 200 /\ ~Accepted(CleanedLast)))

C3_AtMostFiveRequests ==
  /\ attempt <= 5
  /\ (call = "failed" /\ attempt = 5 /\ Retriable) => result = UnableToFetch
  /\ (call = "attempting" /\ attempt = 5) => Retriable

C3_Witness ==
  /\ call = "failed"
  /\ attempt = 5
  /\ last.status = 429
  /\ last.raised = ""
  /\ result = UnableToFetch

\* C4: as soon as a status-200 response carries a text that, cleaned, is not
\* empty and has no "input(", the call has succeeded with exactly that text
\* (no fence marker, no white space at its ends); no request and no sleep
\* follow it.
C4_FirstValidWins ==
  (Got200 /\ CleanedLast # <<>> /\ ~HasInputCall(CleanedLast)) =>
    /\ call = "succeeded"
    /\ result = CleanedLast
    /\ ~contains(result, <<Fence>>)
    /\ result[1] # Space /\ result[Len(result)] # Space
    /\ slept = owed

C4_Witness ==
  /\ call = "succeeded"
  /\ attempt = 2
  /\ contains(last.body, <<Fence>>)
  /\ result # last.body

\* C5: a 429 response puts the call to sleep for its Retry-After value (1 when
\* absent) and the next request is sent only when every such delay has been
\* slept; for the responses 429 with Retry-After 2, then 200 with valid code,
\* the call has slept 2, sent 2 requests and returned the code.
HeaderDelay(h) == IF h.k = "absent" THEN 1 ELSE h.n

C5_SleepsRetryAfter ==
  /\ call = "backoff" =>
       /\ last.status = 429
       /\ retry_after = HeaderDelay(last.header)
       /\ slept + retry_after = owed
       /\ attempt >= 1
  /\ call = "attempting" => slept = owed
  /\ (call = "succeeded" /\ attempt = 2 /\ owed = 2) =>
       slept = 2 /\ result = CleanedLast

C5_Witness ==
  /\ call = "succeeded"
  /\ attempt = 2
  /\ owed = 2
  /\ slept = 2
  /\ last.status = 200

\* C6: a status other than 200 and 429 ends the call at once with a Failure
\* string: no request follows it and the call does not sleep.
C6_OtherStatusAborts ==
  (last.status # 0 /\ last.status # 200 /\ last.status # 429) =>
    /\ call = "failed"
    /\ result = UnableToFetch
    /\ result[1] = Error
    /\ slept = owed

C6_Witness ==
  /\ last.status = 500
  /\ call = "failed"
  /\ attempt = 2

\* C7: an exception raised while sending the request, decoding the response
\* or reading Retry-After does not leave solve_coding_problem: the call has
\* failed with "Error solving coding problem: <description>".
C7_TransportFailureCaught ==
  /\ last.raised # "" =>
       /\ call = "failed"
       /\ result = <<Error, " solving coding problem: ", last.raised>>
       /\ handler = "solutions"
  /\ handler = "escaped" => buffers > 0

C7_Witness ==
  /\ last.status = 429
  /\ last.header = DateHeader
  /\ last.raised = "ValueError"
  /\ call = "failed"
  /\ attempt = 3

\* C8: a code that is empty or begins with the error marker is not run: its
\* output is the invalid-code text with the code in it, and no output buffer
\* is created for it; every Failure of solve_coding_problem begins with the
\* marker and is not run.
Ran == {i \in 1..Len(executed) : executed[i] # "no"}

C8_ErrorTextNotRun ==
  /\ \A i \in 1..Len(final_outputs) :
       (solutions[i] = <<>> \/ solutions[i][1] = Error) =>
         /\ executed[i] = "no"
         /\ final_outputs[i] = <<"Invalid code returned: ">> \o solutions[i]
  /\ buffers = Cardinality(Ran) + (IF handler = "escaped" THEN 1 ELSE 0)
  /\ buffers = 0 => output = <<>>
  /\ call = "failed" => result[1] = Error
  /\ \A i \in 1..Len(solutions) :
       outcomes[i] = "Failure" =>
         /\ solutions[i][1] = Error
         /\ i <= Len(executed) => executed[i] = "no"

C8_Witness ==
  /\ Len(final_outputs) = 2
  /\ outcomes[2] = "Failure"
  /\ executed[1] = "ended"
  /\ executed[2] = "no"
  /\ buffers = 1

\* C9: a fault raised by a running program never leaves execute_code: it
\* becomes the error text of that item and the batch goes on to the report.
C9_FaultNeverEscapes ==
  /\ handler # "escaped"
  /\ \A i \in 1..Len(executed) :
       executed[i] = "raised" => final_outputs[i][1] = Error

\* C10: a program that ends without fault and wrote text with something
\* other than white space in it has that text as its output, with the white
\* space at its end removed and nothing else changed.
C10_OnlyTrailingSpaceRemoved ==
  (/\ Len(final_outputs) > 0
   /\ executed[Len(final_outputs)] = "ended"
   /\ strip(output) # <<>>) =>
    final_outputs[Len(final_outputs)] = rstrip(output)

\* C11: the no-output result is the result of a run that ended having written
\* nothing, and of no other call: not of a run that raised, not of a rejected
\* code, not of a run that wrote text; a run that wrote text does not return
\* what a Failure returns either.
C11_OutcomesDistinguishable ==
  /\ \A i \in 1..Len(final_outputs) :
       executed[i] \in {"no", "raised"} => final_outputs[i] # NoOutput
  /\ (Len(final_outputs) > 0 /\ executed[Len(final_outputs)] = "ended") =>
       LET out == final_outputs[Len(final_outputs)] IN
         /\ output = <<>> => out = NoOutput
         /\ output # <<>> =>
              /\ out # NoOutput
              /\ out[1] # Error
              /\ out[1] # "Invalid code returned: "

\* C12: the result of a question depends on its own responses and its own
\* program only.  Stated over one run: whatever the other programs do, every
\* question has its output when the handler ends (a program that leaves the
\* handler takes its own output with it, never that of another question); the
\* output of a rejected
\* solution is made of that solution alone; the output of a run is made of
\* the text in its own buffer alone, and every run has a buffer of its own.
C12_ItemsIndependent ==
  /\ handler = "sent" => Len(final_outputs) = Len(questions)
  /\ handler = "escaped" => Len(final_outputs) = Len(questions) - 1
  /\ \A i \in 1..Len(final_outputs) :
       executed[i] = "no" =>
         final_outputs[i] = <<"Invalid code returned: ">> \o solutions[i]
  /\ (Len(final_outputs) > 0 /\ executed[Len(final_outputs)] = "ended") =>
       final_outputs[Len(final_outputs)] \in {NoOutput, strip(output)}
  /\ buffers >= Cardinality(Ran)

\* C13 (as claimed): questions are handled one at a time, in order: when the
\* call for question j starts, the solutions and the outputs of the questions
\* before j are there; every execute call gets the solution of its question;
\* a report that is sent rests on one generate call and one execute call per
\* question.
C13_OneAtATime ==
  /\ Len(solutions) >= calls - 1
  /\ Len(final_outputs) >= calls - 1
  /\ \A i \in 1..Len(codes) : codes[i] = solutions[i]
  /\ handler = "sent" => calls = Len(questions) /\ Len(codes) = Len(questions)

\* C13 (amended): two passes, each in input order.  Every question is
\* generated exactly once, one call at a time, and all of that is over before
\* the first execute call; the execute calls come in input order, one at a
\* time and at most one per question, each with the string generate returned
\* for that question.
C13_TwoPasses ==
  /\ calls = Len(solutions) + (IF call = "idle" THEN 0 ELSE 1)
  /\ calls <= Len(questions)
  /\ call # "idle" => SubSeq(prompt, 2, 1 + Len(questions[calls])) = questions[calls]
  /\ Len(codes) > 0 =>
       /\ calls = Len(questions)
       /\ Len(solutions) = Len(questions)
       /\ call = "idle"
  /\ Len(codes) <= Len(questions)
  /\ \A i \in 1..Len(codes) : codes[i] = solutions[i]
  /\ Len(codes) = Len(final_outputs) + (IF handler = "escaped" THEN 1 ELSE 0)
  /\ handler = "sent" => calls = Len(questions) /\ Len(codes) = Len(questions)

C13_Witness ==
  /\ handler = "sent"
  /\ Len(questions) = 2
  /\ calls = 2
  /\ codes = solutions
  /\ solutions[1] # solutions[2]
  /\ executed = <<"ended", "no">>

\* C14 (as claimed): a transport failure and an invalid content are both
\* retried: a call fails on either only with its 5 attempts used up, and the
\* batch is not aborted.
Raised == last.raised # ""
GotInvalid == Got200 /\ (CleanedLast = <<>> \/ HasInputCall(CleanedLast))

C14_BothRetried ==
  /\ (call = "failed" /\ Raised) => attempt = 5
  /\ (call = "failed" /\ GotInvalid) => attempt = 5
  /\ handler = "escaped" => Len(codes) > 0

\* C14 (amended): an invalid content is retried and fails the call only with
\* the 5 attempts used up; a transport failure is not retried: it fails the
\* call on the attempt where it happens.  Either way the Failure string is
\* the solution of that question and the batch goes on.
C14_InvalidRetriedTransportNot ==
  /\ GotInvalid =>
       /\ call \in {"attempting", "failed"}
       /\ call = "failed" => attempt = 5 /\ result = UnableToFetch
  /\ Raised =>
       /\ call = "failed"
       /\ result = <<Error, " solving coding problem: ", last.raised>>
  /\ call = "failed" => handler = "solutions" /\ calls <= Len(questions)
  /\ \A i \in 1..Len(solutions) :
       outcomes[i] = "Failure" =>
         \/ solutions[i] = UnableToFetch
         \/ /\ Len(solutions[i]) = 3
            /\ SubSeq(solutions[i], 1, 2) = <<Error, " solving coding problem: ">>
  /\ handler = "escaped" => Len(codes) > 0

C14_Witness ==
  /\ calls = 2
  /\ solutions = <<UnableToFetch>>
  /\ call = "failed"
  /\ last.raised = "JSONDecodeError"
  /\ attempt = 1

\* C15 (as claimed): the call sleeps exactly once per 429 response and at no
\* other time, and when it is over it has slept the sum of the Retry-After
\* values of the 429 responses that were followed by a further request.
CallOver == call \in {"succeeded", "failed"}

C15_SleepsOncePer429 ==
  /\ call = "backoff" => last.status = 429 /\ sleeps = limited - 1
  /\ call \in {"attempting", "succeeded", "failed"} => sleeps = limited
  /\ CallOver =>
       slept = owed - (IF last.status = 429 THEN HeaderDelay(last.header) ELSE 0)

\* C15 (amended): the call sleeps exactly once per 429 response whose
\* Retry-After is absent or a non-negative integer, and at no other time (a
\* rejected status-200 content is followed by the next request without a
\* sleep); the time slept is the sum of the Retry-After values, 1 when absent,
\* of all those responses, the one of the fifth attempt included, after which
\* no request follows.
Unslept == last.status = 429 /\ Raised

C15_SleepsOncePerReadable429 ==
  /\ call = "backoff" =>
       /\ last.status = 429 /\ ~Raised
       /\ sleeps = limited - 1
       /\ slept + HeaderDelay(last.header) = owed
  /\ (call = "attempting" \/ (CallOver /\ ~Unslept)) =>
       /\ sleeps = limited
       /\ slept = owed
  /\ (CallOver /\ Unslept) =>
       /\ sleeps = limited - 1
       /\ slept = owed - (IF last.header.k = "int" THEN last.header.n ELSE 0)
  /\ limited <= attempt
  /\ slept >= 0

C15_Witness ==
  /\ call = "failed"
  /\ attempt = 5
  /\ last.status = 429
  /\ last.header = IntHeader(2)
  /\ ~Raised
  /\ limited = 2
  /\ sleeps = 2
  /\ slept = 4

\* C16: the retry loop moves over attempting, backoff, succeeded and failed
\* with at most 5 attempts; backoff is entered from attempting only, on a 429;
\* succeeded and failed are left only by the return of the call; every call
\* that started reaches succeeded or failed, and the batch runs to completion:
\* the report of its questions is sent.
C16_MachineStep ==
  /\ (call' = "backoff" /\ call # "backoff") =>
       call = "attempting" /\ last'.status = 429
  /\ call \in {"succeeded", "failed"} =>
       call' = "idle" \/ (call' = call /\ result' = result)
  /\ attempt' \in 0..5

C16_CallEnds == (call \in {"attempting", "backoff"}) ~> (call \in {"succeeded", "failed"})

C16_RunsToCompletion ==
  /\ [][C16_MachineStep]_vars
  /\ C16_CallEnds
  /\ <>(handler = "sent")

\* what does hold of the retry loop and the batch under FairSpec: the steps
\* of the machine, the end of every call, and the end of the handler, be it
\* with the report sent or with a program's exit leaving the handler
C16_LoopPart == [][C16_MachineStep]_vars /\ C16_CallEnds /\ <>(handler \in {"sent", "escaped"})

\* C17: the prompt of a call is fixed before its first request: for a
\* question with "input" or "user" in it, in any case of letters, it carries
\* one number of 1..7 and the no-input instruction, for another question it
\* carries neither; every request of the call carries that same prompt.
HasCue(q) ==
  \E i \in 1..Len(q) : q[i] \in {"input", "Input", "INPUT", "user", "User", "USER"}

PromptBody == SubSeq(prompt, 2, Len(prompt) - 1)

C17_PromptFixedPerCall ==
  call # "idle" =>
    LET q == questions[calls] IN
      /\ IF HasCue(q)
           THEN \E n \in 1..7 :
                  PromptBody = q \o <<" Assume the user input is ", ToString(n),
                                      ". The code should NOT prompt for input.">>
           ELSE PromptBody = q
      /\ sent \subseteq {prompt}
      /\ attempt >= 1 => sent = {prompt}

C17_Witness ==
  /\ call = "attempting"
  /\ attempt = 4
  /\ questions[calls] = <<"ask", "USER">>
  /\ PromptBody[4] = "7"
  /\ sent = {prompt}

\* C18 (as claimed): exec runs a solution if and only if generation returned
\* it as a Success; every solution is non-empty and every Failure begins with
\* the error marker.
C18_RunIffSuccess ==
  /\ \A i \in 1..Len(executed) :
       executed[i] # "no" <=> outcomes[i] = "Success"
  /\ \A i \in 1..Len(solutions) :
       /\ solutions[i] # <<>>
       /\ outcomes[i] = "Failure" => solutions[i][1] = Error

\* C18 (amended): exec runs a solution if and only if generation returned it
\* as a Success that does not begin with the error marker; every solution is
\* non-empty and every Failure begins with the marker, so no Failure is run,
\* and a Success is turned away exactly when its cleaned text begins with the
\* marker.
RunsIt(i) == outcomes[i] = "Success" /\ solutions[i][1] # Error

C18_RunIffSuccessWithoutMarker ==
  /\ \A i \in 1..Len(executed) : executed[i] # "no" <=> RunsIt(i)
  /\ handler = "escaped" => RunsIt(Len(executed) + 1)
  /\ \A i \in 1..Len(solutions) :
       /\ solutions[i] # <<>>
       /\ outcomes[i] = "Failure" => solutions[i][1] = Error
       /\ outcomes[i] = "Success" => ~HasInputCall(solutions[i])

C18_Witness ==
  /\ Len(executed) = 2
  /\ outcomes = <<"Success", "Success">>
  /\ solutions[1][1] = Error
  /\ executed = <<"no", "raised">>

====
